---- MODULE Spec2Model ----
(***************************************************************************)
(* Model of instagram_analyzer.py: main, get_profile_data, write_report.   *)
(* Strings that the program inspects or orders (the typed target name, the *)
(* usernames, the "@" prefix of a report entry) are sequences of code      *)
(* points; fixed console messages are TLA+ strings.                        *)
(***************************************************************************)
EXTENDS Integers, Sequences, FiniteSets

VARIABLES
    pc,               \* position of the single thread of control
    stdin,            \* the line typed at the target-username prompt, until read
    target_username,  \* main: target_username
    prompts,          \* number of credential prompts issued (lines 97, 98, 118)
    calls,            \* provider operations invoked so far
    session,          \* "none" | "active" | "closed" (loader's session)
    loginResult,      \* outcome of loader.login: "none" before the call
    console,          \* messages printed to stdout, in order
    traceback,        \* name of the exception that escaped main, or "none"
    exit_status,      \* -1 while running, else the process exit status
    following,        \* get_profile_data: following
    followers,        \* get_profile_data: followers
    nFollowees,       \* items yielded so far by profile.get_followees()
    nFollowers,       \* items yielded so far by profile.get_followers()
    yieldedFollowees, \* usernames yielded by profile.get_followees()
    yieldedFollowers, \* usernames yielded by profile.get_followers()
    wr_followers,     \* write_report parameter: followers
    wr_following,     \* write_report parameter: following
    mutual,           \* write_report: mutual
    fileExists,       \* the report file exists in the working directory
    fileLines,        \* what has been written to the report file
    summary,          \* <<the final console summary>> (lines 130-134), <<>> before it
    phases            \* the phases entered so far, in order

vars == <<pc, stdin, target_username, prompts, calls, session, loginResult,
          console, traceback, exit_status, following, followers, nFollowees,
          nFollowers, yieldedFollowees, yieldedFollowers, wr_followers,
          wr_following, mutual, fileExists, fileLines, summary, phases>>

---------------------------------------------------------------------------
(* Bounds *)

MaxInput == 2

MaxStream == 3

---------------------------------------------------------------------------
(* Characters and strings *)

SPACE == 32

AT == 64

LETTER_A == 97

Chars == {SPACE, AT, LETTER_A}

\* str.isspace() code points below 256
Whitespace == {9, 10, 11, 12, 13, 28, 29, 30, 31, 32, 133, 160}

Inputs == UNION {[1..n -> Chars] : n \in 0..MaxInput}

\* "al", "alice", "bob", "carol"
Users == {<<97, 108>>, <<97, 108, 105, 99, 101>>, <<98, 111, 98>>,
          <<99, 97, 114, 111, 108>>}

RECURSIVE lstrip(_, _)
lstrip(s, chars) ==
    IF s # <<>> /\ s[1] \in chars THEN lstrip(Tail(s), chars) ELSE s

RECURSIVE rstrip(_, _)
rstrip(s, chars) ==
    IF s # <<>> /\ s[Len(s)] \in chars
    THEN rstrip(SubSeq(s, 1, Len(s) - 1), chars)
    ELSE s

strip(s) == rstrip(lstrip(s, Whitespace), Whitespace)

\* the "@" prefix is left in place
NormalizeTarget_keepAt(raw) == strip(raw)

NormalizeTarget(raw) == lstrip(strip(raw), {AT})

\* str.__lt__: comparison by code point, a proper prefix is smaller
RECURSIVE StrLess(_, _)
StrLess(a, b) ==
    IF b = <<>> THEN FALSE
    ELSE IF a = <<>> THEN TRUE
    ELSE IF a[1] < b[1] THEN TRUE
    ELSE IF a[1] > b[1] THEN FALSE
    ELSE StrLess(Tail(a), Tail(b))

---------------------------------------------------------------------------
(* Pure helpers of get_profile_data and write_report *)

\* set.add
SetAdd(S, u) == S \cup {u}

\* union taken instead of intersection
SetIntersection_union(a, b) == a \cup b

\* followers & following: the smaller operand is scanned and each element
\* is looked up in the other one
SetIntersection(a, b) ==
    IF Cardinality(a) <= Cardinality(b)
    THEN {x \in a : x \in b}
    ELSE {x \in b : x \in a}

Smallest(S) == CHOOSE m \in S : \A x \in S \ {m} : StrLess(m, x)

Largest(S) == CHOOSE m \in S : \A x \in S \ {m} : StrLess(x, m)

\* descending order
RECURSIVE sorted_reverse(_)
sorted_reverse(S) ==
    IF S = {} THEN <<>>
    ELSE LET m == Largest(S) IN <<m>> \o sorted_reverse(S \ {m})

\* sorted(S) for a set of str
RECURSIVE sorted(_)
sorted(S) ==
    IF S = {} THEN <<>>
    ELSE LET m == Smallest(S) IN <<m>> \o sorted(S \ {m})

TitleLine(target) == [kind |-> "title", user |-> target]

GeneratedLine == [kind |-> "generated"]

RuleLine(ch, n) == [kind |-> "rule", ch |-> ch, n |-> n]

HeaderLine(section, target, count) ==
    [kind |-> "header", section |-> section, user |-> target, count |-> count]

\* f.write(f"@{username}\n")
EntryLine(username) == [kind |-> "entry", text |-> <<AT>> \o username]

EntryLines(names) == [i \in 1..Len(names) |-> EntryLine(names[i])]

\* The writes of write_report, lines 60-80, in order
ReportLines(target, fwers, fwing, mut) ==
    <<TitleLine(target), GeneratedLine, RuleLine("=", 60)>>
    \o <<HeaderLine("following", target, Cardinality(fwing)), RuleLine("-", 40)>>
    \o EntryLines(sorted(fwing))
    \o <<HeaderLine("followers", target, Cardinality(fwers)), RuleLine("-", 40)>>
    \o EntryLines(sorted(fwers))
    \o <<HeaderLine("mutual", target, Cardinality(mut)), RuleLine("-", 40)>>
    \o EntryLines(sorted(mut))

\* f"{target_username}_analysis_{timestamp}.txt" (the timestamp is not modelled)
Filename(target) == [user |-> target, suffix |-> "_analysis_", ext |-> ".txt"]

\* return followers, following
GetProfileDataReturn(fwers, fwing) == <<fwers, fwing>>

\* the two counts returned in the other order
WriteReportReturn_swapped(filename, fwers, fwing, mut) ==
    <<filename, Cardinality(fwing), Cardinality(fwers), Cardinality(mut)>>

\* return filename, len(followers), len(following), len(mutual)
WriteReportReturn(filename, fwers, fwing, mut) ==
    <<filename, Cardinality(fwers), Cardinality(fwing), Cardinality(mut)>>

\* lines 128-134: unpacking of write_report's result and the summary
Summary(r) ==
    [Following |-> r[3], Followers |-> r[2], Mutual |-> r[4], file |-> r[1]]

---------------------------------------------------------------------------
(* Termination of the process *)

\* print(message); sys.exit(1)
Fail(message) ==
    /\ console' = Append(console, message)
    /\ exit_status' = 1
    /\ pc' = "failed"
    /\ traceback' = "none"

\* an exception leaves main: the interpreter prints a traceback on stderr
\* and exits with status 1
Crash(exception) ==
    /\ traceback' = exception
    /\ exit_status' = 1
    /\ pc' = "crashed"
    /\ console' = console

Terminated == pc \in {"done", "failed", "crashed"}

---------------------------------------------------------------------------
(* Outcomes of the provider's operations *)

LoginOutcomes ==
    {"ok", "BadCredentialsException", "TwoFactorAuthRequiredException",
     "Exception"}

TwoFactorOutcomes == {"ok", "BadCredentialsException"}

ProfileOutcomes ==
    {"ok", "ProfileNotExistsException", "LoginRequiredException"}

OpenOutcomes == {"ok", "OSError"}

---------------------------------------------------------------------------
(* The program *)

Init ==
    /\ pc = "start"
    /\ stdin \in Inputs
    /\ target_username = <<>>
    /\ prompts = 0
    /\ calls = {}
    /\ session = "none"
    /\ loginResult = "none"
    /\ console = <<>>
    /\ traceback = "none"
    /\ exit_status = -1
    /\ following = {}
    /\ followers = {}
    /\ nFollowees = 0
    /\ nFollowers = 0
    /\ yieldedFollowees = {}
    /\ yieldedFollowers = {}
    /\ wr_followers = {}
    /\ wr_following = {}
    /\ mutual = {}
    /\ fileExists = FALSE
    /\ fileLines = <<>>
    /\ summary = <<>>
    /\ phases = <<>>

\* main, lines 90-93: read and normalise the target username
ReadTarget ==
    /\ pc = "start"
    /\ target_username' = NormalizeTarget(stdin)
    /\ stdin' = <<>>
    /\ IF target_username' = <<>>
       THEN Fail("Error: Username cannot be empty.")
       ELSE /\ pc' = "login"
            /\ UNCHANGED <<console, traceback, exit_status>>
    /\ UNCHANGED <<prompts, calls, session, loginResult, following, followers,
                   nFollowees, nFollowers, yieldedFollowees, yieldedFollowers,
                   wr_followers, wr_following, mutual, fileExists, fileLines,
                   summary, phases>>

\* main, line 113: loader.login returned
LoginOk ==
    /\ prompts' = prompts + 2
    /\ session' = "active"
    /\ console' = Append(console, "Login successful.")
    /\ pc' = "resolve"
    /\ UNCHANGED <<traceback, exit_status>>

\* the message is printed but the run goes on
LoginBadCredentials_noExit ==
    /\ prompts' = prompts + 2
    /\ console' = Append(console, "Error: Invalid username or password.")
    /\ pc' = "resolve"
    /\ UNCHANGED <<session, traceback, exit_status>>

\* main, lines 114-116: except BadCredentialsException
LoginBadCredentials ==
    /\ prompts' = prompts + 2
    /\ Fail("Error: Invalid username or password.")
    /\ UNCHANGED session

\* main, lines 117-118: except TwoFactorAuthRequiredException, code prompt
LoginTwoFactorRequired ==
    /\ prompts' = prompts + 3
    /\ pc' = "two_factor"
    /\ UNCHANGED <<session, console, traceback, exit_status>>

\* no catch-all clause: the exception leaves main
LoginOtherException_uncaught ==
    /\ prompts' = prompts + 2
    /\ Crash("Exception")
    /\ UNCHANGED session

\* main, lines 121-123: except Exception
LoginOtherException ==
    /\ prompts' = prompts + 2
    /\ Fail("Login error")
    /\ UNCHANGED session

\* main, lines 95-123: credential prompts and loader.login
Login(outcome) ==
    /\ pc = "login"
    /\ calls' = calls \cup {"login"}
    /\ loginResult' = outcome
    /\ phases' = Append(phases, "Authenticating")
    /\ CASE outcome = "ok" -> LoginOk
         [] outcome = "BadCredentialsException" -> LoginBadCredentials
         [] outcome = "TwoFactorAuthRequiredException" -> LoginTwoFactorRequired
         [] outcome = "Exception" -> LoginOtherException
    /\ UNCHANGED <<stdin, target_username, following, followers, nFollowees,
                   nFollowers, yieldedFollowees, yieldedFollowers,
                   wr_followers, wr_following, mutual, fileExists, fileLines,
                   summary>>

\* main, lines 119-120: loader.two_factor_login inside the except clause;
\* an exception raised there is not handled by the sibling except clauses
TwoFactorLogin(outcome) ==
    /\ pc = "two_factor"
    /\ calls' = calls \cup {"two_factor_login"}
    /\ IF outcome = "ok"
       THEN /\ session' = "active"
            /\ console' = Append(console, "Login successful.")
            /\ pc' = "resolve"
            /\ UNCHANGED <<traceback, exit_status>>
       ELSE /\ Crash(outcome)
            /\ UNCHANGED session
    /\ UNCHANGED <<stdin, target_username, prompts, loginResult, following,
                   followers, nFollowees, nFollowers, yieldedFollowees,
                   yieldedFollowers, wr_followers, wr_following, mutual,
                   fileExists, fileLines, summary, phases>>

\* get_profile_data, lines 15-29: Profile.from_username
ResolveProfile(outcome) ==
    /\ pc = "resolve"
    /\ calls' = calls \cup {"from_username"}
    /\ phases' = Append(phases, "ResolvingProfile")
    /\ CASE outcome = "ok" ->
              /\ console' = Append(console, "Profile found")
              /\ pc' = "fetch_following"
              /\ UNCHANGED <<traceback, exit_status>>
         [] outcome = "ProfileNotExistsException" ->
              Fail("Error: Profile does not exist.")
         [] outcome = "LoginRequiredException" ->
              Fail("Error: This profile is private. Login is required and you must follow this account.")
    /\ following' = {}
    /\ UNCHANGED <<stdin, target_username, prompts, session, loginResult,
                   followers, nFollowees, nFollowers, yieldedFollowees,
                   yieldedFollowers, wr_followers, wr_following, mutual,
                   fileExists, fileLines, summary>>

EnterPhase(name) ==
    IF phases # <<>> /\ phases[Len(phases)] = name
    THEN phases
    ELSE Append(phases, name)

\* get_profile_data, lines 31-33: one iteration over profile.get_followees()
FetchFollowee(u) ==
    /\ pc = "fetch_following"
    /\ nFollowees < MaxStream
    /\ calls' = calls \cup {"get_followees"}
    /\ phases' = EnterPhase("FetchingFollowing")
    /\ nFollowees' = nFollowees + 1
    /\ yieldedFollowees' = yieldedFollowees \cup {u}
    /\ following' = SetAdd(following, u)
    /\ UNCHANGED <<pc, stdin, target_username, prompts, session, loginResult,
                   console, traceback, exit_status, followers, nFollowers,
                   yieldedFollowers, wr_followers, wr_following, mutual,
                   fileExists, fileLines, summary>>

\* get_profile_data, lines 34-36: the followees stream raises
FollowingLoginRequired ==
    /\ pc = "fetch_following"
    /\ calls' = calls \cup {"get_followees"}
    /\ phases' = EnterPhase("FetchingFollowing")
    /\ Fail("Error: Login required to fetch following list.")
    /\ UNCHANGED <<stdin, target_username, prompts, session, loginResult,
                   following, followers, nFollowees, nFollowers,
                   yieldedFollowees, yieldedFollowers, wr_followers,
                   wr_following, mutual, fileExists, fileLines, summary>>

\* get_profile_data, lines 37-40: the followees stream is exhausted
FollowingEnd ==
    /\ pc = "fetch_following"
    /\ calls' = calls \cup {"get_followees"}
    /\ phases' = EnterPhase("FetchingFollowing")
    /\ console' = Append(console, "Following fetched")
    /\ followers' = {}
    /\ pc' = "fetch_followers"
    /\ UNCHANGED <<stdin, target_username, prompts, session, loginResult,
                   traceback, exit_status, following, nFollowees, nFollowers,
                   yieldedFollowees, yieldedFollowers, wr_followers,
                   wr_following, mutual, fileExists, fileLines, summary>>

\* get_profile_data, lines 42-44: one iteration over profile.get_followers()
FetchFollower(u) ==
    /\ pc = "fetch_followers"
    /\ nFollowers < MaxStream
    /\ calls' = calls \cup {"get_followers"}
    /\ phases' = EnterPhase("FetchingFollowers")
    /\ nFollowers' = nFollowers + 1
    /\ yieldedFollowers' = yieldedFollowers \cup {u}
    /\ followers' = SetAdd(followers, u)
    /\ UNCHANGED <<pc, stdin, target_username, prompts, session, loginResult,
                   console, traceback, exit_status, following, nFollowees,
                   yieldedFollowees, wr_followers, wr_following, mutual,
                   fileExists, fileLines, summary>>

\* get_profile_data, lines 45-47: the followers stream raises
FollowersLoginRequired ==
    /\ pc = "fetch_followers"
    /\ calls' = calls \cup {"get_followers"}
    /\ phases' = EnterPhase("FetchingFollowers")
    /\ Fail("Error: Login required to fetch followers list.")
    /\ UNCHANGED <<stdin, target_username, prompts, session, loginResult,
                   following, followers, nFollowees, nFollowers,
                   yieldedFollowees, yieldedFollowers, wr_followers,
                   wr_following, mutual, fileExists, fileLines, summary>>

\* get_profile_data, lines 48-50, and main, lines 125-128: the followers
\* stream is exhausted, the two sets are returned and passed to write_report
FollowersEnd ==
    /\ pc = "fetch_followers"
    /\ calls' = calls \cup {"get_followers"}
    /\ phases' = EnterPhase("FetchingFollowers")
    /\ console' = Append(Append(console, "Followers fetched"), "Writing report...")
    /\ LET r == GetProfileDataReturn(followers, following)
       IN /\ wr_followers' = r[1]
          /\ wr_following' = r[2]
    /\ pc' = "analyze"
    /\ UNCHANGED <<stdin, target_username, prompts, session, loginResult,
                   traceback, exit_status, following, followers, nFollowees,
                   nFollowers, yieldedFollowees, yieldedFollowers, mutual,
                   fileExists, fileLines, summary>>

\* write_report, lines 55-57
Analyze ==
    /\ pc = "analyze"
    /\ mutual' = SetIntersection(wr_followers, wr_following)
    /\ phases' = Append(phases, "Analyzing")
    /\ pc' = "open"
    /\ UNCHANGED <<stdin, target_username, prompts, calls, session,
                   loginResult, console, traceback, exit_status, following,
                   followers, nFollowees, nFollowers, yieldedFollowees,
                   yieldedFollowers, wr_followers, wr_following, fileExists,
                   fileLines, summary>>

\* write_report, line 59: open(filename, "w")
OpenReport(outcome) ==
    /\ pc = "open"
    /\ phases' = Append(phases, "WritingReport")
    /\ IF outcome = "ok"
       THEN /\ fileExists' = TRUE
            /\ fileLines' = <<>>
            /\ pc' = "write"
            /\ UNCHANGED <<console, traceback, exit_status>>
       ELSE /\ Crash(outcome)
            /\ UNCHANGED <<fileExists, fileLines>>
    /\ UNCHANGED <<stdin, target_username, prompts, calls, session,
                   loginResult, following, followers, nFollowees, nFollowers,
                   yieldedFollowees, yieldedFollowers, wr_followers,
                   wr_following, mutual, summary>>

Plan == ReportLines(target_username, wr_followers, wr_following, mutual)

\* write_report, lines 60-80: the next f.write succeeds
WriteLine ==
    /\ pc = "write"
    /\ Len(fileLines) < Len(Plan)
    /\ fileLines' = Append(fileLines, Plan[Len(fileLines) + 1])
    /\ UNCHANGED <<pc, stdin, target_username, prompts, calls, session,
                   loginResult, console, traceback, exit_status, following,
                   followers, nFollowees, nFollowers, yieldedFollowees,
                   yieldedFollowers, wr_followers, wr_following, mutual,
                   fileExists, summary, phases>>

\* write_report, lines 60-80: the next f.write raises; the with block closes
\* the file and the exception leaves main
WriteFails ==
    /\ pc = "write"
    /\ Len(fileLines) < Len(Plan)
    /\ Crash("OSError")
    /\ UNCHANGED <<stdin, target_username, prompts, calls, session,
                   loginResult, following, followers, nFollowees, nFollowers,
                   yieldedFollowees, yieldedFollowers, wr_followers,
                   wr_following, mutual, fileExists, fileLines, summary,
                   phases>>

\* write_report, line 82, and main, lines 128-134: return and final summary
Finish ==
    /\ pc = "write"
    /\ Len(fileLines) = Len(Plan)
    /\ LET r == WriteReportReturn(Filename(target_username), wr_followers,
                                  wr_following, mutual)
       IN summary' = <<Summary(r)>>
    /\ console' = Append(console, "Analysis complete!")
    /\ exit_status' = 0
    /\ pc' = "done"
    /\ UNCHANGED <<stdin, target_username, prompts, calls, session,
                   loginResult, traceback, following, followers, nFollowees,
                   nFollowers, yieldedFollowees, yieldedFollowers,
                   wr_followers, wr_following, mutual, fileExists, fileLines,
                   phases>>

Next ==
    \/ ReadTarget
    \/ \E o \in LoginOutcomes : Login(o)
    \/ \E o \in TwoFactorOutcomes : TwoFactorLogin(o)
    \/ \E o \in ProfileOutcomes : ResolveProfile(o)
    \/ \E u \in Users : FetchFollowee(u)
    \/ FollowingLoginRequired
    \/ FollowingEnd
    \/ \E u \in Users : FetchFollower(u)
    \/ FollowersLoginRequired
    \/ FollowersEnd
    \/ Analyze
    \/ \E o \in OpenOutcomes : OpenReport(o)
    \/ WriteLine
    \/ WriteFails
    \/ Finish

Spec == Init /\ [][Next]_vars

---------------------------------------------------------------------------
(* Vocabulary of the properties *)

ErrorMessages ==
    {"Error: Username cannot be empty.",
     "Error: Invalid username or password.",
     "Login error",
     "Error: Profile does not exist.",
     "Error: This profile is private. Login is required and you must follow this account.",
     "Error: Login required to fetch following list.",
     "Error: Login required to fetch followers list."}

Printed(message) == \E i \in 1..Len(console) : console[i] = message

LastPrintedIsError ==
    console # <<>> /\ console[Len(console)] \in ErrorMessages

\* the run ended through print + sys.exit(1)
FailedWithMessage ==
    pc = "failed" /\ exit_status = 1 /\ traceback = "none" /\ LastPrintedIsError

\* whitespace, then "@" signs, then whitespace, and nothing else
BlankTarget(raw) ==
    \E i \in 0..Len(raw) : \E j \in i..Len(raw) :
        \A k \in 1..Len(raw) :
            IF k <= i \/ k > j THEN raw[k] \in Whitespace ELSE raw[k] = AT

\* lexicographic order on strings, by first difference
LexLess(a, b) ==
    \E k \in 1..Len(b) :
        /\ \A i \in 1..(k - 1) : i <= Len(a) /\ a[i] = b[i]
        /\ k > Len(a) \/ a[k] < b[k]

PhaseOrder ==
    <<"Authenticating", "ResolvingProfile", "FetchingFollowing",
      "FetchingFollowers", "Analyzing", "WritingReport">>

IsPrefix(p, q) == Len(p) <= Len(q) /\ \A i \in 1..Len(p) : p[i] = q[i]

Entered(phase) == \E i \in 1..Len(phases) : phases[i] = phase

IsHeader(i, section) ==
    /\ i \in 1..Len(fileLines)
    /\ fileLines[i].kind = "header"
    /\ fileLines[i].section = section

HeaderIndices == {i \in 1..Len(fileLines) : fileLines[i].kind = "header"}

HeaderIdx(section) == CHOOSE i \in 1..Len(fileLines) : IsHeader(i, section)

HeaderCount(section) == fileLines[HeaderIdx(section)].count

\* the lines of a section: after its header, before the next header
SectionBody(section) ==
    {i \in 1..Len(fileLines) :
        /\ i > HeaderIdx(section)
        /\ \A h \in HeaderIndices : h > HeaderIdx(section) => i < h}

SectionEntries(section) ==
    {i \in SectionBody(section) : fileLines[i].kind = "entry"}

EntryName(i) == Tail(fileLines[i].text)

SectionNames(section) == {EntryName(i) : i \in SectionEntries(section)}

SectionWellFormed(section) ==
    /\ \A i \in SectionBody(section) :
          \/ i = HeaderIdx(section) + 1 /\ fileLines[i].kind = "rule"
          \/ i > HeaderIdx(section) + 1 /\ fileLines[i].kind = "entry"
    /\ \A i \in SectionEntries(section) : fileLines[i].text[1] = AT
    /\ \A i, j \in SectionEntries(section) :
          i < j => LexLess(EntryName(i), EntryName(j))
    /\ HeaderCount(section) = Cardinality(SectionEntries(section))

Min(x, y) == IF x <= y THEN x ELSE y

---------------------------------------------------------------------------
(* Properties *)

\* C1: every terminated run is either Done with exit status 0 and the report
\* written, or Failed with exit status 1 and a human-readable error message
\* printed by the program.
C1_ExitContract ==
    Terminated =>
        \/ pc = "done" /\ exit_status = 0 /\ traceback = "none"
           /\ fileExists /\ fileLines = Plan
        \/ FailedWithMessage

\* C2: a report file exists only after both enumerations completed, and no
\* run that ends in failure leaves a report file (whole or partial) behind.
C2_NoPartialReport ==
    /\ fileExists => Printed("Following fetched") /\ Printed("Followers fetched")
    /\ (Terminated /\ pc # "done") => ~fileExists

\* C3: when the typed target is empty after normalisation, the step that
\* reads it ends the run with the empty-username error and exit status 1,
\* with no credential prompt and no provider call made.
C3_EmptyTargetRejected ==
    [][(pc = "start" /\ BlankTarget(stdin)) =>
          /\ pc' = "failed"
          /\ exit_status' = 1
          /\ traceback' = "none"
          /\ console' = <<"Error: Username cannot be empty.">>
          /\ prompts' = 0
          /\ calls' = {}
          /\ session' = "none"]_vars

C3_Witness ==
    /\ pc = "failed"
    /\ console = <<"Error: Username cannot be empty.">>
    /\ target_username = <<>>
    /\ exit_status = 1
    /\ calls = {}

\* C4: when the two-factor login has been attempted and did not yield a
\* session, the run is in the Failed state with a human-readable message
\* and the profile was never looked up.
C4_TwoFactorFailure ==
    ("two_factor_login" \in calls /\ session # "active") =>
        FailedWithMessage /\ "from_username" \notin calls

C6_PhaseOrder ==
    /\ IsPrefix(phases, PhaseOrder)
    /\ (pc = "resolve" \/ "from_username" \in calls) =>
          /\ session = "active"
          /\ \/ loginResult = "ok"
             \/ /\ loginResult = "TwoFactorAuthRequiredException"
                /\ "two_factor_login" \in calls
    /\ (pc = "fetch_followers" \/ "get_followers" \in calls) =>
          Printed("Following fetched")
    /\ (pc \in {"analyze", "open", "write"} \/ fileExists \/ Entered("Analyzing")) =>
          Printed("Followers fetched")
    /\ fileExists => Entered("Analyzing")

C6_Witness ==
    /\ pc = "done"
    /\ phases = PhaseOrder
    /\ loginResult = "TwoFactorAuthRequiredException"

\* C7: once write_report has computed it, mutual is the intersection of its
\* two input sets, a subset of each, no larger than the smaller one, the
\* computation raised nothing, and the mutual count returned and written in
\* the report is the size of the intersection.
C7_Mutual ==
    Entered("Analyzing") =>
        /\ mutual = wr_following \cap wr_followers
        /\ mutual \subseteq wr_following
        /\ mutual \subseteq wr_followers
        /\ Cardinality(mutual) <=
              Min(Cardinality(wr_following), Cardinality(wr_followers))
        /\ pc = "open" => traceback = "none" /\ exit_status = -1
        /\ pc = "done" =>
              /\ summary[1].Mutual = Cardinality(wr_following \cap wr_followers)
              /\ HeaderCount("mutual") = Cardinality(wr_following \cap wr_followers)

C7_Witness ==
    /\ pc = "done"
    /\ mutual # {}
    /\ mutual # wr_following
    /\ mutual # wr_followers
    /\ Cardinality(wr_following) # Cardinality(wr_followers)

\* C8: a finished report has exactly the three sections following,
\* followers, mutual in that order; each section lists its usernames in
\* strictly increasing lexicographic order, each prefixed with "@", exactly
\* the distinct names of its set, and its header count is the number of
\* entries listed.
C8_ReportLayout ==
    pc = "done" =>
        /\ Cardinality(HeaderIndices) = 3
        /\ \A sec \in {"following", "followers", "mutual"} :
              \E i \in HeaderIndices : IsHeader(i, sec)
        /\ HeaderIdx("following") < HeaderIdx("followers")
        /\ HeaderIdx("followers") < HeaderIdx("mutual")
        /\ \A sec \in {"following", "followers", "mutual"} :
              SectionWellFormed(sec)
        /\ SectionNames("following") = yieldedFollowees
        /\ SectionNames("followers") = yieldedFollowers
        /\ SectionNames("mutual") = yieldedFollowees \cap yieldedFollowers

C8_Witness ==
    /\ pc = "done"
    /\ nFollowees > Cardinality(yieldedFollowees)
    /\ Cardinality(yieldedFollowees) >= 2
    /\ Cardinality(yieldedFollowers) >= 2
    /\ mutual # {}

\* C9: a run that obtained a session and has terminated has logged that
\* session out.
C9_SessionClosed ==
    (Terminated /\ session # "none") => session = "closed"

\* C10: in a successful run the summary's Following count is the number of
\* distinct usernames the followees stream yielded and the report's
\* following header count, likewise for Followers, and the Mutual count is
\* the report's mutual header count.
C10_CountsNotSwapped ==
    pc = "done" =>
        /\ summary[1].Following = Cardinality(yieldedFollowees)
        /\ summary[1].Following = HeaderCount("following")
        /\ summary[1].Followers = Cardinality(yieldedFollowers)
        /\ summary[1].Followers = HeaderCount("followers")
        /\ summary[1].Mutual = HeaderCount("mutual")

C10_Witness ==
    /\ pc = "done"
    /\ Cardinality(yieldedFollowees) = 3
    /\ Cardinality(yieldedFollowers) = 1
    /\ summary[1].Mutual = 1

====
